---- MODULE Spec2Model ----
(***************************************************************************)
(* term-filter: a program is run on a pseudo-terminal; the caller's input  *)
(* is relayed to it unchanged and its output is relayed to the caller with *)
(* the CSI escape sequences removed (src/term-filter-main.c).              *)
(*                                                                         *)
(* Three specifications share the definitions below:                      *)
(*   SpecFilter  the scan loop of csi_filter applied to chunks of input    *)
(*   SpecWrite   one call of safe_write under partial results of write(2)  *)
(*   Spec        the whole process: main, the child, the two relay tasks   *)
(***************************************************************************)
EXTENDS Integers, Sequences, FiniteSets, TLC

\* ------------------------------------------------------------------ bounds
\* Longest input the filter is fed in SpecFilter.
MaxInput == 5
\* Longest chunk handed to safe_write in SpecWrite.
MaxCount == 3
\* Number of bytes the child writes at most, and the caller types at most.
MaxChildOut == 2
MaxStdin == 1
\* Highest descriptor number of the descriptor table.
MaxFd == 4
\* The most interrupted calls (EINTR) of one task.
MaxEintr == 2
\* The most bytes of input when one of them is any byte value.
MaxWide == 4
\* The longest chunk read before a full one, and the longest period of the
\* pattern a full chunk repeats.
MaxShort == 2
MaxPeriod == 3

\* ------------------------------------------------------- program constants
BUFSIZE == 512
\* 033, the ESC byte
ESC == 27
\* 0133, the '[' byte
LBRACKET == 91
\* 0100 and 0176, the range of the bytes that end a CSI sequence
FINAL_LO == 64
FINAL_HI == 126

\* The byte values stand for the classes the code tells apart:
\* ESC, '[' (a final byte too), '1' (parameter), 'm' (final),
\* ' ' (below the parameters), DEL (above the finals).
Bytes == {27, 91, 49, 109, 32, 127}

\* What a read past the end of a chunk can find in memory: any byte; two
\* values stand for them.
Stray == {27, 109}
\* The bytes the child writes and the caller types in Spec.
ChildBytes == {27, 104}
StdinBytes == {113}
\* Exit values and signals the child ends with.
ExitValues == {0, 3}
Signals == {9}
\* Attributes a terminal can have at start.
TermAttrs == {"cooked", "cbreak"}
Tasks == {"raw", "csi"}

INIT   == "INIT"
ESCAPE == "ESCAPE"
CSI    == "CSI"
FilterStates == {INIT, ESCAPE, CSI}

VARIABLES
  state,     \* csi_filter: enum state, kept across the reads of the task
  trace,     \* history: one record per byte scanned, [pre, byte, out]
  emitted,   \* history: the obuf contents handed to safe_write, concatenated
  chunks,    \* history: one record per chunk scanned, [entry, n, obuf]
  \* the relay tasks, t in Tasks
  tpc,       \* where the task is: "idle" (not created), "read", "write", "done"
  wbuf,      \* safe_write: the count bytes at buf
  wp,        \* safe_write: p - buf, so that avail = count - wp
  wcalls,    \* history: the write(2) calls of this safe_write, [p, req, n]
  wsent,     \* history: the bytes this safe_write made the destination accept
  wret,      \* {the value safe_write returned}, {} while it runs
  sink,      \* all bytes the destination of the task has accepted
  ioerr,     \* history: the task met a hard I/O error
  \* main and its environment
  pc,        \* main: the statement it is at
  hasCmd,    \* argc >= 2
  tty,       \* isatty (0)
  termAttr,  \* the attributes of the terminal on descriptor 0 ("none": no terminal)
  attr0,     \* history: the attributes it had at start
  to,        \* main: struct termios to
  rawEntries, \* history: number of switches to raw mode
  restores,  \* history: number of restorations
  status,    \* main: int status
  waited,    \* history: how waitpid ended, "no", "ok" or "failed"
  exitCode,  \* the exit code of the process ("none" while it runs)
  child,     \* the child: "none", "running", "dead", "reaped"
  cend,      \* how the program run by the child ends, [kind, val]
  cleft,     \* the bytes the child has still to write to its terminal
  cwritten,  \* history: the bytes the child wrote
  wstatus,   \* the termination status the kernel keeps for waitpid
  pty,       \* bytes written to the slave and not yet read from the master
  stdin,     \* the bytes of the caller's input not yet read
  \* descriptors and the start of the session
  fds,       \* the descriptor table of the process, [0..MaxFd -> kind]
  cfds,      \* the descriptor table of the child after fork
  master,    \* run/main: int master (-1 while not set)
  slave,     \* run: int slave (-1 while not set)
  rlog,      \* history: the opens and closes of the process, [op, fd]
  cpc,       \* the child: the statement of run it is at ("none": no child)
  csess,     \* the child: [leader, ctty], session leader / has the pty as ctty
  files,     \* main: f1 and f2, [t -> <<in, out>>] (<<>> while not set)
  eintr,     \* history: per task, the calls that ended with EINTR
  mlog       \* history: what main has done, in order

fvars == <<state, trace, emitted, chunks>>
tvars == <<tpc, wbuf, wp, wcalls, wsent, wret, sink, ioerr>>
mvars == <<pc, hasCmd, tty, termAttr, attr0, to, rawEntries, restores, status,
           waited, exitCode>>
cvars == <<child, cend, cleft, cwritten, wstatus>>
rvars == <<fds, cfds, master, slave, rlog, cpc, csess>>
vars == <<state, trace, emitted, chunks, tpc, wbuf, wp, wcalls, wsent, wret,
          sink, ioerr, pc, hasCmd, tty, termAttr, attr0, to, rawEntries,
          restores, status, waited, exitCode, child, cend, cleft, cwritten,
          wstatus, pty, stdin, fds, cfds, master, slave, rlog, cpc, csess,
          files, eintr, mlog>>

\* --------------------------------------------------------------- helpers
RECURSIVE Concat(_)
Concat(ss) == IF ss = <<>> THEN <<>> ELSE Head(ss) \o Concat(Tail(ss))

SeqsUpTo(S, n) == UNION {[1..k -> S] : k \in 0..n}

Min(a, b) == IF a < b THEN a ELSE b

\* ------------------------------------------------------------ csi_filter
\* Variants of the switch with one slip each: the final byte of a sequence
\* stored, the break of case INIT missing, the delayed ESC not stored.
csi_switch_final_emitted(st, b) ==
  CASE st = INIT ->
         IF b = ESC THEN [state |-> ESCAPE, out |-> <<>>]
                    ELSE [state |-> INIT, out |-> <<b>>]
    [] st = ESCAPE ->
         IF b = LBRACKET THEN [state |-> CSI, out |-> <<>>]
                         ELSE [state |-> INIT, out |-> <<ESC, b>>]
    [] st = CSI ->
         IF b >= FINAL_LO /\ b <= FINAL_HI
           THEN [state |-> INIT, out |-> <<b>>]
           ELSE [state |-> CSI, out |-> <<>>]

csi_switch_no_break(st, b) ==
  CASE st = INIT ->
         IF b = ESC THEN [state |-> ESCAPE, out |-> <<>>]
         ELSE IF b = LBRACKET THEN [state |-> CSI, out |-> <<b>>]
         ELSE [state |-> INIT, out |-> <<b, ESC, b>>]
    [] st = ESCAPE ->
         IF b = LBRACKET THEN [state |-> CSI, out |-> <<>>]
                         ELSE [state |-> INIT, out |-> <<ESC, b>>]
    [] st = CSI ->
         [state |-> IF b >= FINAL_LO /\ b <= FINAL_HI THEN INIT ELSE CSI,
          out |-> <<>>]

csi_switch_esc_dropped(st, b) ==
  CASE st = INIT ->
         IF b = ESC THEN [state |-> ESCAPE, out |-> <<>>]
                    ELSE [state |-> INIT, out |-> <<b>>]
    [] st = ESCAPE ->
         IF b = LBRACKET THEN [state |-> CSI, out |-> <<>>]
                         ELSE [state |-> INIT, out |-> <<b>>]
    [] st = CSI ->
         [state |-> IF b >= FINAL_LO /\ b <= FINAL_HI THEN INIT ELSE CSI,
          out |-> <<>>]

\* (variant: the final byte tested against its lower limit only)
csi_switch_no_upper(st, b) ==
  CASE st = INIT ->
         IF b = ESC THEN [state |-> ESCAPE, out |-> <<>>]
                    ELSE [state |-> INIT, out |-> <<b>>]
    [] st = ESCAPE ->
         IF b = LBRACKET THEN [state |-> CSI, out |-> <<>>]
                         ELSE [state |-> INIT, out |-> <<ESC, b>>]
    [] st = CSI ->
         [state |-> IF b >= FINAL_LO THEN INIT ELSE CSI,
          out |-> <<>>]

\* (variant: the delayed ESC kept pending and written again)
csi_switch_esc_again(st, b) ==
  CASE st = INIT ->
         IF b = ESC THEN [state |-> ESCAPE, out |-> <<>>]
                    ELSE [state |-> INIT, out |-> <<b>>]
    [] st = ESCAPE ->
         IF b = LBRACKET THEN [state |-> CSI, out |-> <<>>]
                         ELSE [state |-> ESCAPE, out |-> <<ESC, b>>]
    [] st = CSI ->
         [state |-> IF b >= FINAL_LO /\ b <= FINAL_HI THEN INIT ELSE CSI,
          out |-> <<>>]

\* One pass of the switch for the byte b in state st: the next state and the
\* bytes stored through q.
csi_switch(st, b) ==
  CASE st = INIT ->
         IF b = ESC THEN [state |-> ESCAPE, out |-> <<>>]
                    ELSE [state |-> INIT, out |-> <<b>>]
    [] st = ESCAPE ->
         IF b = LBRACKET THEN [state |-> CSI, out |-> <<>>]
                         ELSE [state |-> INIT, out |-> <<ESC, b>>]
    [] st = CSI ->
         [state |-> IF b >= FINAL_LO /\ b <= FINAL_HI THEN INIT ELSE CSI,
          out |-> <<>>]

\* The for loop over one chunk: p runs over ibuf, q over obuf.
\* Gives the state after the chunk, the obuf contents and the per-byte log.
\* The bytes are taken in order, one switch per byte; a chunk of more than
\* one byte is scanned as its first half followed by its second half (the
\* test of a.state has the first half evaluated before the second is begun).
RECURSIVE csi_loop(_, _, _, _)
csi_loop(st, ibuf, obuf, log) ==
  IF ibuf = <<>> THEN [state |-> st, obuf |-> obuf, log |-> log]
  ELSE IF Len(ibuf) = 1
    THEN LET r == csi_switch(st, Head(ibuf))
         IN [state |-> r.state, obuf |-> obuf \o r.out,
             log |-> Append(log, [pre |-> st, byte |-> Head(ibuf), out |-> r.out])]
    ELSE LET h == Len(ibuf) \div 2
             a == csi_loop(st, SubSeq(ibuf, 1, h), obuf, log)
         IN IF a.state \in FilterStates
              THEN csi_loop(a.state, SubSeq(ibuf, h + 1, Len(ibuf)), a.obuf, a.log)
              ELSE a

\* (variant: state declared inside the while loop, so reset for each chunk)
csi_scan_state_reset(st, ibuf) == csi_loop(INIT, ibuf, <<>>, <<>>)

\* The scan of one chunk entered in state st, with q = obuf at its start.
csi_scan(st, ibuf) == csi_loop(st, ibuf, <<>>, <<>>)

\* Values of the variables a specification leaves alone.
TasksIdle ==
  /\ tpc = [t \in Tasks |-> "idle"]
  /\ wbuf = [t \in Tasks |-> <<>>]
  /\ wp = [t \in Tasks |-> 0]
  /\ wcalls = [t \in Tasks |-> <<>>]
  /\ wsent = [t \in Tasks |-> <<>>]
  /\ wret = [t \in Tasks |-> {}]
  /\ sink = [t \in Tasks |-> <<>>]
  /\ ioerr = [t \in Tasks |-> FALSE]

MainIdle ==
  /\ pc = "start"
  /\ hasCmd = TRUE
  /\ tty = FALSE
  /\ termAttr = "none"
  /\ attr0 = "none"
  /\ to = "none"
  /\ rawEntries = 0
  /\ restores = 0
  /\ status = 1
  /\ waited = "no"
  /\ exitCode = "none"
  /\ child = "none"
  /\ cend = [kind |-> "exit", val |-> 0]
  /\ cleft = <<>>
  /\ cwritten = <<>>
  /\ wstatus = 0

Fds == 0..MaxFd

\* The process is started with descriptors 0, 1 and 2 open and no session.
RunIdle ==
  /\ fds = [d \in Fds |-> IF d <= 2 THEN "std" ELSE "closed"]
  /\ cfds = [d \in Fds |-> "closed"]
  /\ master = -1
  /\ slave = -1
  /\ rlog = <<>>
  /\ cpc = "none"
  /\ csess = [leader |-> FALSE, ctty |-> FALSE]
  /\ files = [t \in Tasks |-> <<>>]
  /\ eintr = [t \in Tasks |-> 0]
  /\ mlog = <<>>

\* The session is up, both tasks are started and main has slept: the state
\* main is in when it calls waitpid (descriptors 0, 1, 2 open at start,
\* descriptor 0 not a terminal).
SessionUp ==
  /\ fds = [d \in Fds |-> IF d <= 2 THEN "std" ELSE IF d = 3 THEN "master" ELSE "closed"]
  /\ cfds = [d \in Fds |-> IF d <= 2 THEN "slave" ELSE "closed"]
  /\ master = 3
  /\ slave = 4
  /\ rlog = <<>>
  /\ cpc = "program"
  /\ csess = [leader |-> TRUE, ctty |-> TRUE]
  /\ files = [t \in Tasks |-> IF t = "raw" THEN <<0, 3>> ELSE <<3, 1>>]
  /\ eintr = [t \in Tasks |-> 0]
  /\ mlog = <<"args", "fork", "create_raw", "create_csi", "detach", "sleep">>

\* ------------------------------------------------------------- SpecFilter
InitFilter ==
  /\ state = INIT
  /\ trace = <<>>
  /\ emitted = <<>>
  /\ chunks = <<>>
  /\ TasksIdle
  /\ MainIdle
  /\ RunIdle
  /\ pty = <<>>
  /\ stdin = <<>>

\* One read of n > 0 bytes into ibuf followed by the scan of the chunk.
ScanChunk ==
  \E ibuf \in SeqsUpTo(Bytes, Min(BUFSIZE - 1, MaxInput - Len(trace))) :
    /\ ibuf # <<>>
    /\ LET r == csi_scan(state, ibuf)
       IN /\ state' = r.state
          /\ trace' = trace \o r.log
          /\ emitted' = emitted \o r.obuf
          /\ chunks' = Append(chunks, [entry |-> state, n |-> Len(ibuf),
                                       obuf |-> r.obuf])
    /\ UNCHANGED <<tvars, mvars, cvars, pty, stdin>>
    /\ UNCHANGED <<rvars, files, eintr, mlog>>

NextFilter == ScanChunk

SpecFilter == InitFilter /\ [][NextFilter]_vars

\* The input scanned so far, and what each byte of it made the filter emit.
input == [i \in 1..Len(trace) |-> trace[i].byte]

TypeOK ==
  /\ state \in FilterStates
  /\ Len(trace) <= MaxInput
  /\ Len(chunks) <= Len(trace)

\* ------------------------------------------------ claims on the filter
\* 0x30-0x3F, the parameter bytes of a CSI sequence
IsParam(b) == b >= 48 /\ b <= 63
IsFinal(b) == b >= FINAL_LO /\ b <= FINAL_HI
NoEsc(s) == \A k \in 1..Len(s) : s[k] # ESC
Sub(s, a, b) == [k \in 1..(b - a + 1) |-> s[a + k - 1]]

\* The state the filter is in after the byte at position i.
StateAfter(i) == IF i < Len(trace) THEN trace[i + 1].pre ELSE state

\* input = pre . ESC '[' p* f . post with the ESC at i and f at j
CsiShape(i, j) ==
  /\ i + 1 < j
  /\ NoEsc(Sub(input, 1, i - 1))
  /\ input[i] = ESC
  /\ input[i + 1] = LBRACKET
  /\ \A k \in (i + 2)..(j - 1) : IsParam(input[k])
  /\ IsFinal(input[j])
  /\ NoEsc(Sub(input, j + 1, Len(input)))

\* C1: for an input pre . ESC '[' p* f . post (pre, post without ESC, p in
\* 0x30-0x3F, f in 0x40-0x7E), under every chunking, nothing is emitted for
\* the bytes of the span, the output is pre . post, the state ends Init, and
\* the output is the one of the unsplit input.
C1_CsiDropped ==
  \A i \in 1..Len(input) : \A j \in 1..Len(input) :
    CsiShape(i, j) =>
      /\ \A k \in i..j : trace[k].out = <<>>
      /\ emitted = Sub(input, 1, i - 1) \o Sub(input, j + 1, Len(input))
      /\ state = INIT
      /\ emitted = csi_scan(INIT, input).obuf

\* A sequence with a parameter and bytes around it, split inside the sequence.
C1_Witness ==
  \E i \in 1..Len(input) : \E j \in 1..Len(input) :
    /\ CsiShape(i, j)
    /\ j > i + 2
    /\ Len(input) > j - i + 1
    /\ Len(chunks) >= 2
    /\ chunks[1].n > i /\ chunks[1].n < j

\* C2: the output never holds an ESC immediately followed by '['.
C2_NoCsiIntroducer ==
  \A k \in 1..(Len(emitted) - 1) :
    ~(emitted[k] = ESC /\ emitted[k + 1] = LBRACKET)

\* C3: an input without ESC is emitted byte for byte, under every chunking,
\* and the state is Init before and after every byte.
C3_NoEscIdentity ==
  NoEsc(input) =>
    /\ emitted = input
    /\ state = INIT
    /\ \A k \in 1..Len(trace) : trace[k].pre = INIT /\ trace[k].out = <<input[k]>>
    /\ \A c \in 1..Len(chunks) : chunks[c].entry = INIT

C3_Witness ==
  /\ NoEsc(input)
  /\ Len(input) >= 3
  /\ Len(chunks) >= 2
  /\ \E k \in 1..Len(input) : input[k] = LBRACKET

\* Position of the first byte of chunk c in the input.
RECURSIVE ChunkStart(_)
ChunkStart(c) == IF c = 1 THEN 1 ELSE ChunkStart(c - 1) + chunks[c - 1].n

\* What the bytes of chunk c made the filter emit, byte by byte.
ChunkOut(c) ==
  Concat([k \in 1..chunks[c].n |-> trace[ChunkStart(c) + k - 1].out])

\* C4: an ESC read in Init emits nothing; the byte b # '[' read next emits
\* exactly ESC, b and returns to Init; when the two are in different chunks
\* the ESC is at the head of the later chunk's output.
C4_LoneEsc ==
  \A i \in 1..Len(trace) :
    (trace[i].pre = INIT /\ trace[i].byte = ESC) =>
      /\ trace[i].out = <<>>
      /\ StateAfter(i) = ESCAPE
      /\ (i < Len(trace) /\ trace[i + 1].byte # LBRACKET) =>
           /\ trace[i + 1].out = <<ESC, trace[i + 1].byte>>
           /\ StateAfter(i + 1) = INIT
           /\ \A c \in 2..Len(chunks) :
                ChunkStart(c) = i + 1 =>
                  /\ chunks[c].entry = ESCAPE
                  /\ chunks[c - 1].obuf = ChunkOut(c - 1)
                  /\ chunks[c].obuf = ChunkOut(c)
                  /\ Len(chunks[c].obuf) >= 2
                  /\ Sub(chunks[c].obuf, 1, 2) = <<ESC, trace[i + 1].byte>>

\* ESC ends one chunk, a byte other than '[' starts the next.
C4_Witness ==
  \E c \in 2..Len(chunks) :
    /\ chunks[c].entry = ESCAPE
    /\ trace[ChunkStart(c)].byte \notin {LBRACKET, ESC}
    /\ trace[ChunkStart(c) - 1].pre = INIT
    /\ ChunkStart(c) > 2

\* C5: the output and the final state do not depend on the chunking: after
\* any chunks they are the ones of the whole input scanned as one chunk.
C5_ChunkingIndependent ==
  LET whole == csi_scan(INIT, input)
  IN /\ emitted = whole.obuf
     /\ state = whole.state
     /\ emitted = Concat([c \in 1..Len(chunks) |-> chunks[c].obuf])

C5_Witness ==
  /\ Len(chunks) >= 3
  /\ \E c \in 2..Len(chunks) : chunks[c].entry = CSI
  /\ \E c \in 2..Len(chunks) : chunks[c].entry = ESCAPE
  /\ emitted # <<>>

\* The input ends inside an unterminated sequence that starts at i: after
\* ESC, or after ESC '[' and bytes none of which is a final byte.
PartialAt(i) ==
  /\ input[i] = ESC
  /\ \/ i = Len(input)
     \/ /\ input[i + 1] = LBRACKET
        /\ \A k \in (i + 2)..Len(input) : ~IsFinal(input[k])

\* C6: when the input ends inside an unterminated sequence the state is
\* Escape or Csi and no byte of the partial sequence was emitted.
C6_PartialPending ==
  \A i \in 1..Len(input) :
    PartialAt(i) =>
      /\ state \in {ESCAPE, CSI}
      /\ \A k \in i..Len(input) : trace[k].out = <<>>

\* ------------------------------------------------------------- safe_write
Max(a, b) == IF a > b THEN a ELSE b

\* The n bytes at buf + from: bytes of the chunk as far as it goes, then the
\* bytes g that follow the chunk in memory.
MemRead(buf, from, n, g) ==
  [k \in 1..n |-> IF from + k <= Len(buf) THEN buf[from + k]
                  ELSE g[from + k - Len(buf)]]

\* The third argument of write(2), for a chunk of count bytes of which avail
\* are not yet written.
write_request(count, avail) == count

\* (variant: the loop goes on whatever safe_write returned)
AfterWriteGoesOn(ret, n) == "read"

\* What the caller's loop does with the value safe_write returned for a
\* chunk of n bytes: it goes on reading when the two are equal.
AfterWrite(ret, n) == IF ret = n THEN "read" ELSE "done"

\* One pass of the for loop in which write(2) accepts n >= 1 bytes; the loop
\* ends and safe_write returns count once avail <= 0.
safe_write_pass(t) ==
  /\ pc # "exited"
  /\ tpc[t] = "write"
  /\ LET count == Len(wbuf[t])
         avail == count - wp[t]
         req   == write_request(count, avail)
     IN /\ avail > 0
        /\ \E n \in 1..req :
             \E g \in [1..Max(0, wp[t] + n - count) -> Stray] :
               LET got == MemRead(wbuf[t], wp[t], n, g)
               IN /\ sink' = [sink EXCEPT ![t] = @ \o got]
                  /\ wsent' = [wsent EXCEPT ![t] = @ \o got]
                  /\ wcalls' = [wcalls EXCEPT ![t] =
                                  Append(@, [p |-> wp[t], req |-> req, n |-> n])]
                  /\ wp' = [wp EXCEPT ![t] = @ + n]
                  /\ IF avail - n > 0
                       THEN UNCHANGED <<tpc, wret>>
                       ELSE /\ wret' = [wret EXCEPT ![t] = {count}]
                            /\ tpc' = [tpc EXCEPT ![t] = AfterWrite(count, count)]
  /\ UNCHANGED <<fvars, mvars, cvars, wbuf, ioerr, pty, stdin>>
  /\ UNCHANGED <<rvars, files, eintr, mlog>>

\* write(2) fails with an error other than EINTR: safe_write returns it and
\* the caller's loop ends.
safe_write_error(t) ==
  /\ pc # "exited"
  /\ tpc[t] = "write"
  /\ Len(wbuf[t]) - wp[t] > 0
  /\ wret' = [wret EXCEPT ![t] = {-1}]
  /\ tpc' = [tpc EXCEPT ![t] = AfterWrite(-1, Len(wbuf[t]))]
  /\ ioerr' = [ioerr EXCEPT ![t] = TRUE]
  /\ UNCHANGED <<fvars, mvars, cvars, wbuf, wp, wcalls, wsent, sink, pty, stdin>>
  /\ UNCHANGED <<rvars, files, eintr, mlog>>

\* -------------------------------------------------------------- SpecWrite
\* One task is in safe_write with a chunk of 1..MaxCount bytes, main is in
\* waitpid and the child runs.
InitWrite ==
  /\ state = INIT /\ trace = <<>> /\ emitted = <<>> /\ chunks = <<>>
  /\ \E t \in Tasks : \E buf \in SeqsUpTo(Bytes, MaxCount) :
       /\ buf # <<>>
       /\ tpc = [u \in Tasks |-> IF u = t THEN "write" ELSE "read"]
       /\ wbuf = [u \in Tasks |-> IF u = t THEN buf ELSE <<>>]
  /\ wp = [t \in Tasks |-> 0]
  /\ wcalls = [t \in Tasks |-> <<>>]
  /\ wsent = [t \in Tasks |-> <<>>]
  /\ wret = [t \in Tasks |-> {}]
  /\ sink = [t \in Tasks |-> <<>>]
  /\ ioerr = [t \in Tasks |-> FALSE]
  /\ pc = "wait" /\ hasCmd = TRUE /\ tty = FALSE
  /\ termAttr = "none" /\ attr0 = "none" /\ to = "none"
  /\ rawEntries = 0 /\ restores = 0 /\ status = 1
  /\ waited = "no" /\ exitCode = "none"
  /\ child = "running" /\ cend = [kind |-> "exit", val |-> 0]
  /\ cleft = <<>> /\ cwritten = <<>> /\ wstatus = 0
  /\ pty = <<>> /\ stdin = <<>>
  /\ SessionUp

NextWrite ==
  \/ \E t \in Tasks : safe_write_pass(t)
  \/ \E t \in Tasks : safe_write_error(t)

SpecWrite == InitWrite /\ [][NextWrite]_vars

\* --------------------------------------------------------- the relay tasks
\* A task enters safe_write with the chunk buf; safe_write of no bytes
\* returns 0 without a call of write(2).
EnterWrite(t, buf) ==
  /\ wbuf' = [wbuf EXCEPT ![t] = buf]
  /\ wp' = [wp EXCEPT ![t] = 0]
  /\ wcalls' = [wcalls EXCEPT ![t] = <<>>]
  /\ wsent' = [wsent EXCEPT ![t] = <<>>]
  /\ IF buf = <<>>
       THEN /\ wret' = [wret EXCEPT ![t] = {0}]
            /\ tpc' = [tpc EXCEPT ![t] = AfterWrite(0, 0)]
       ELSE /\ wret' = [wret EXCEPT ![t] = {}]
            /\ tpc' = [tpc EXCEPT ![t] = "write"]

\* no_filter: safe_read gives n > 0 bytes of the caller's input.
no_filter_read ==
  /\ pc # "exited"
  /\ tpc["raw"] = "read"
  /\ \E n \in 1..Min(Len(stdin), BUFSIZE) :
       /\ EnterWrite("raw", SubSeq(stdin, 1, n))
       /\ stdin' = SubSeq(stdin, n + 1, Len(stdin))
  /\ UNCHANGED <<fvars, mvars, cvars, sink, ioerr, pty>>
  /\ UNCHANGED <<rvars, files, eintr, mlog>>

\* csi_filter: safe_read gives n > 0 bytes of the child's output, the chunk
\* is scanned and obuf handed to safe_write.
csi_filter_read ==
  /\ pc # "exited"
  /\ tpc["csi"] = "read"
  /\ \E n \in 1..Min(Len(pty), BUFSIZE - 1) :
       LET ibuf == SubSeq(pty, 1, n)
           r == csi_scan(state, ibuf)
       IN /\ state' = r.state
          /\ trace' = trace \o r.log
          /\ emitted' = emitted \o r.obuf
          /\ chunks' = Append(chunks, [entry |-> state, n |-> n, obuf |-> r.obuf])
          /\ EnterWrite("csi", r.obuf)
          /\ pty' = SubSeq(pty, n + 1, Len(pty))
  /\ UNCHANGED <<mvars, cvars, sink, ioerr, stdin>>
  /\ UNCHANGED <<rvars, files, eintr, mlog>>

\* The source of task t has nothing more to give: end of the caller's input,
\* or the hang-up of the pty once the child is gone.
SourceEnded(t) ==
  IF t = "raw" THEN stdin = <<>>
  ELSE pty = <<>> /\ child \in {"dead", "reaped"}

\* safe_read returns n <= 0 at the end of the source: the loop ends.
read_end(t) ==
  /\ pc # "exited"
  /\ tpc[t] = "read"
  /\ SourceEnded(t)
  /\ tpc' = [tpc EXCEPT ![t] = "done"]
  /\ UNCHANGED <<fvars, mvars, cvars, wbuf, wp, wcalls, wsent, wret, sink,
                 ioerr, pty, stdin>>
  /\ UNCHANGED <<rvars, files, eintr, mlog>>

\* (variant: an error in one task ends both loops)
read_error_stops_all(t) ==
  /\ pc # "exited"
  /\ tpc[t] = "read"
  /\ tpc' = [u \in Tasks |-> "done"]
  /\ ioerr' = [ioerr EXCEPT ![t] = TRUE]
  /\ UNCHANGED <<fvars, mvars, cvars, wbuf, wp, wcalls, wsent, wret, sink,
                 pty, stdin>>
  /\ UNCHANGED <<rvars, files, eintr, mlog>>

\* safe_read returns n < 0 for an error other than EINTR: the loop ends.
read_error(t) ==
  /\ pc # "exited"
  /\ tpc[t] = "read"
  /\ tpc' = [tpc EXCEPT ![t] = "done"]
  /\ ioerr' = [ioerr EXCEPT ![t] = TRUE]
  /\ UNCHANGED <<fvars, mvars, cvars, wbuf, wp, wcalls, wsent, wret, sink,
                 pty, stdin>>
  /\ UNCHANGED <<rvars, files, eintr, mlog>>

\* --------------------------------------------------------------- the child
\* The termination status waitpid stores, and the macros that read it.
StatusOfExit(v) == (v % 256) * 256
StatusOfSignal(sig) == sig
WIFEXITED(w) == w % 128 = 0
WEXITSTATUS(w) == (w \div 256) % 256

\* The program run by the child writes a byte to its terminal.
ChildWrite ==
  /\ child = "running"
  /\ cpc = "program"
  /\ cleft # <<>>
  /\ pty' = Append(pty, Head(cleft))
  /\ cwritten' = Append(cwritten, Head(cleft))
  /\ cleft' = Tail(cleft)
  /\ UNCHANGED <<fvars, tvars, mvars, child, cend, wstatus, stdin>>
  /\ UNCHANGED <<rvars, files, eintr, mlog>>

\* The program exits once it has written its output, or is killed at any
\* time by a signal.
ChildEnd ==
  /\ child = "running"
  /\ cpc = "program"
  /\ \/ cend.kind = "exit" /\ cleft = <<>> /\ wstatus' = StatusOfExit(cend.val)
     \/ cend.kind = "signal" /\ wstatus' = StatusOfSignal(cend.val)
  /\ child' = "dead"
  /\ UNCHANGED <<fvars, tvars, mvars, cend, cleft, cwritten, pty, stdin>>
  /\ UNCHANGED <<rvars, files, eintr, mlog>>

\* ------------------------------------------------------------ descriptors
\* The descriptor a successful open gets: the lowest one not in use.
FreeFds(tab) == {d \in Fds : tab[d] = "closed"}
LowestFree(tab) == CHOOSE d \in FreeFds(tab) : \A e \in FreeFds(tab) : d <= e

\* -------------------------------------------------------------------- main
cfmakeraw(attr) == "raw"

\* (variant: the status of waitpid returned as it is)
exit_status_undecoded(w) == w

\* status = WIFEXITED (status) ? WEXITSTATUS (status) : 1
exit_status(w) == IF WIFEXITED(w) THEN WEXITSTATUS(w) ELSE 1

MainStep(from, next) ==
  /\ pc = from
  /\ pc' = next

\* if (argc < 2) return 1
CheckArgs ==
  /\ pc = "start"
  /\ IF hasCmd THEN pc' = "run" /\ UNCHANGED exitCode
               ELSE pc' = "exited" /\ exitCode' = 1
  /\ UNCHANGED <<fvars, tvars, cvars, hasCmd, tty, termAttr, attr0, to,
                 rawEntries, restores, status, waited, pty, stdin>>
  /\ mlog' = Append(mlog, IF hasCmd THEN "args" ELSE "exit")
  /\ UNCHANGED <<rvars, files, eintr>>

\* run succeeds: the child exists, has the slave on 0, 1 and 2 and runs the
\* program, and main holds the master.
RunOk ==
  /\ MainStep("run", "raw")
  /\ child' = "running"
  /\ UNCHANGED <<fvars, tvars, hasCmd, tty, termAttr, attr0, to, rawEntries,
                 restores, status, waited, exitCode, cend, cleft, cwritten,
                 wstatus, pty, stdin>>
  /\ master' = LowestFree(fds)
  /\ fds' = [fds EXCEPT ![LowestFree(fds)] = "master"]
  /\ slave' = LowestFree(fds')
  /\ cfds' = [d \in Fds |-> IF d <= 2 THEN "slave"
                           ELSE IF fds[d] = "std" THEN "std" ELSE "closed"]
  /\ cpc' = "program"
  /\ csess' = [leader |-> TRUE, ctty |-> TRUE]
  /\ mlog' = Append(mlog, "fork")
  /\ UNCHANGED <<rlog, files, eintr>>

\* run fails (no pty, no slave or no fork): main returns 1.
RunFail ==
  /\ MainStep("run", "exited")
  /\ exitCode' = 1
  /\ UNCHANGED <<fvars, tvars, cvars, hasCmd, tty, termAttr, attr0, to,
                 rawEntries, restores, status, waited, pty, stdin>>
  /\ mlog' = Append(mlog, "run_failed")
  /\ UNCHANGED <<rvars, files, eintr>>

\* if (isatty (0)) { tcgetattr; cfmakeraw; tcsetattr }
EnterRaw ==
  /\ MainStep("raw", "create1")
  /\ IF tty
       THEN /\ to' = termAttr
            /\ termAttr' = cfmakeraw(termAttr)
            /\ rawEntries' = rawEntries + 1
       ELSE UNCHANGED <<to, termAttr, rawEntries>>
  /\ UNCHANGED <<fvars, tvars, cvars, hasCmd, tty, attr0, restores, status,
                 waited, exitCode, pty, stdin>>
  /\ mlog' = (IF tty THEN Append(mlog, "raw") ELSE mlog)
  /\ UNCHANGED <<rvars, files, eintr>>

\* thrd_create (&t1, no_filter_proc, f1)
CreateRaw ==
  /\ MainStep("create1", "create2")
  /\ tpc' = [tpc EXCEPT !["raw"] = "read"]
  /\ UNCHANGED <<fvars, cvars, wbuf, wp, wcalls, wsent, wret, sink, ioerr,
                 hasCmd, tty, termAttr, attr0, to, rawEntries, restores,
                 status, waited, exitCode, pty, stdin>>
  /\ files' = [files EXCEPT !["raw"] = <<0, master>>]
  /\ mlog' = Append(mlog, "create_raw")
  /\ UNCHANGED <<rvars, eintr>>

\* thrd_create (&t2, csi_filter_proc, f2)
CreateCsi ==
  /\ MainStep("create2", "detach")
  /\ tpc' = [tpc EXCEPT !["csi"] = "read"]
  /\ UNCHANGED <<fvars, cvars, wbuf, wp, wcalls, wsent, wret, sink, ioerr,
                 hasCmd, tty, termAttr, attr0, to, rawEntries, restores,
                 status, waited, exitCode, pty, stdin>>
  /\ files' = [files EXCEPT !["csi"] = <<master, 1>>]
  /\ mlog' = Append(mlog, "create_csi")
  /\ UNCHANGED <<rvars, eintr>>

\* thrd_detach (t1); thrd_detach (t2): nothing waits for the tasks.
Detach ==
  /\ MainStep("detach", "sleep")
  /\ UNCHANGED <<fvars, tvars, cvars, hasCmd, tty, termAttr, attr0, to,
                 rawEntries, restores, status, waited, exitCode, pty, stdin>>
  /\ mlog' = Append(mlog, "detach")
  /\ UNCHANGED <<rvars, files, eintr>>

\* (variant: the delay followed at once by the restoration)
SleepThenRestore ==
  /\ MainStep("sleep", "restore")
  /\ UNCHANGED <<fvars, tvars, cvars, hasCmd, tty, termAttr, attr0, to,
                 rawEntries, restores, status, waited, exitCode, pty, stdin>>
  /\ mlog' = Append(mlog, "sleep")
  /\ UNCHANGED <<rvars, files, eintr>>

\* sleep (1)
Sleep ==
  /\ MainStep("sleep", "wait")
  /\ UNCHANGED <<fvars, tvars, cvars, hasCmd, tty, termAttr, attr0, to,
                 rawEntries, restores, status, waited, exitCode, pty, stdin>>
  /\ mlog' = Append(mlog, "sleep")
  /\ UNCHANGED <<rvars, files, eintr>>

\* waitpid returns the child once it is dead, and status is decoded.
WaitOk ==
  /\ MainStep("wait", "restore")
  /\ child = "dead"
  /\ child' = "reaped"
  /\ status' = exit_status(wstatus)
  /\ waited' = "ok"
  /\ UNCHANGED <<fvars, tvars, hasCmd, tty, termAttr, attr0, to, rawEntries,
                 restores, exitCode, cend, cleft, cwritten, wstatus, pty, stdin>>
  /\ mlog' = Append(mlog, "wait")
  /\ UNCHANGED <<rvars, files, eintr>>

\* waitpid fails: status keeps the 1 it was initialised with.
WaitFail ==
  /\ MainStep("wait", "restore")
  /\ waited' = "failed"
  /\ UNCHANGED <<fvars, tvars, cvars, hasCmd, tty, termAttr, attr0, to,
                 rawEntries, restores, status, exitCode, pty, stdin>>
  /\ mlog' = Append(mlog, "wait")
  /\ UNCHANGED <<rvars, files, eintr>>

\* (the restoration left out)
RestoreSkipped ==
  /\ MainStep("restore", "return")
  /\ UNCHANGED <<fvars, tvars, cvars, hasCmd, tty, termAttr, attr0, to,
                 rawEntries, restores, status, waited, exitCode, pty, stdin>>
  /\ UNCHANGED <<rvars, files, eintr, mlog>>

\* if (isatty (0)) tcsetattr (0, TCSANOW, &to)
Restore ==
  /\ MainStep("restore", "return")
  /\ IF tty
       THEN /\ termAttr' = to
            /\ restores' = restores + 1
       ELSE UNCHANGED <<termAttr, restores>>
  /\ UNCHANGED <<fvars, tvars, cvars, hasCmd, tty, attr0, to, rawEntries,
                 status, waited, exitCode, pty, stdin>>
  /\ mlog' = (IF tty THEN Append(mlog, "restore") ELSE mlog)
  /\ UNCHANGED <<rvars, files, eintr>>

\* return status: the process ends, and its tasks with it.
Return ==
  /\ MainStep("return", "exited")
  /\ exitCode' = status % 256
  /\ UNCHANGED <<fvars, tvars, cvars, hasCmd, tty, termAttr, attr0, to,
                 rawEntries, restores, status, waited, pty, stdin>>
  /\ mlog' = Append(mlog, "exit")
  /\ UNCHANGED <<rvars, files, eintr>>

\* -------------------------------------------------------------------- Spec
Init ==
  /\ state = INIT /\ trace = <<>> /\ emitted = <<>> /\ chunks = <<>>
  /\ TasksIdle
  /\ pc = "start"
  /\ hasCmd \in BOOLEAN
  /\ tty \in BOOLEAN
  /\ termAttr \in (IF tty THEN TermAttrs ELSE {"none"})
  /\ attr0 = termAttr
  /\ to = "none"
  /\ rawEntries = 0 /\ restores = 0
  /\ status = 1
  /\ waited = "no"
  /\ exitCode = "none"
  /\ child = "none"
  /\ cend \in [kind : {"exit"}, val : ExitValues] \cup [kind : {"signal"}, val : Signals]
  /\ cleft \in SeqsUpTo(ChildBytes, MaxChildOut)
  /\ cwritten = <<>>
  /\ wstatus = 0
  /\ pty = <<>>
  /\ stdin \in SeqsUpTo(StdinBytes, MaxStdin)
  /\ RunIdle

Next ==
  \/ CheckArgs \/ RunOk \/ RunFail \/ EnterRaw \/ CreateRaw \/ CreateCsi
  \/ Detach \/ Sleep \/ WaitOk \/ WaitFail \/ Restore \/ Return
  \/ ChildWrite \/ ChildEnd
  \/ no_filter_read \/ csi_filter_read
  \/ \E t \in Tasks : read_end(t)
  \/ \E t \in Tasks : read_error(t)
  \/ \E t \in Tasks : safe_write_pass(t)
  \/ \E t \in Tasks : safe_write_error(t)

Spec == Init /\ [][Next]_vars

\* ------------------------------------------------------------------- run
\* The rest of the variables of main, of the tasks and of the program the
\* child runs, which run leaves alone.
RunFrame ==
  UNCHANGED <<fvars, tvars, hasCmd, tty, termAttr, attr0, to, rawEntries,
              restores, status, waited, cend, cleft, cwritten, pty, stdin,
              files, eintr>>

\* master = posix_openpt (O_RDWR | O_NOCTTY)
run_openpt ==
  /\ pc = "run"
  /\ FreeFds(fds) # {}
  /\ master' = LowestFree(fds)
  /\ fds' = [fds EXCEPT ![LowestFree(fds)] = "master"]
  /\ rlog' = Append(rlog, [op |-> "open", fd |-> LowestFree(fds)])
  /\ pc' = "grantpt"
  /\ RunFrame
  /\ UNCHANGED <<exitCode, child, wstatus, cfds, slave, cpc, csess, mlog>>

\* posix_openpt fails: return -1 with nothing open
run_openpt_fail ==
  /\ pc = "run"
  /\ pc' = "run_failed"
  /\ RunFrame
  /\ UNCHANGED <<exitCode, child, wstatus, rvars, mlog>>

\* grantpt, unlockpt and ptsname, in this order, then the open of the slave
PtyStages == {"grantpt", "unlockpt", "ptsname"}
StageAfter(stage) ==
  CASE stage = "grantpt" -> "unlockpt"
    [] stage = "unlockpt" -> "ptsname"
    [] stage = "ptsname" -> "open"

run_pty_stage(stage) ==
  /\ pc = stage
  /\ pc' = StageAfter(stage)
  /\ RunFrame
  /\ UNCHANGED <<exitCode, child, wstatus, rvars, mlog>>

\* one of them fails: goto no_slave
run_pty_stage_fail(stage) ==
  /\ pc = stage
  /\ pc' = "no_slave"
  /\ RunFrame
  /\ UNCHANGED <<exitCode, child, wstatus, rvars, mlog>>

\* slave = open (device, O_RDWR)
run_open_slave ==
  /\ pc = "open"
  /\ FreeFds(fds) # {}
  /\ slave' = LowestFree(fds)
  /\ fds' = [fds EXCEPT ![LowestFree(fds)] = "slave"]
  /\ rlog' = Append(rlog, [op |-> "open", fd |-> LowestFree(fds)])
  /\ pc' = "fork"
  /\ RunFrame
  /\ UNCHANGED <<exitCode, child, wstatus, cfds, master, cpc, csess, mlog>>

\* the open fails: goto no_slave
run_open_slave_fail ==
  /\ pc = "open"
  /\ pc' = "no_slave"
  /\ RunFrame
  /\ UNCHANGED <<exitCode, child, wstatus, rvars, mlog>>

\* fork succeeds: the child starts in its branch of run with a copy of the
\* descriptor table
run_fork ==
  /\ pc = "fork"
  /\ child' = "running"
  /\ cfds' = fds
  /\ cpc' = "close_master"
  /\ pc' = "parent"
  /\ RunFrame
  /\ UNCHANGED <<exitCode, wstatus, fds, master, slave, rlog, csess, mlog>>

\* fork fails: goto no_fork
run_fork_fail ==
  /\ pc = "fork"
  /\ pc' = "no_fork"
  /\ RunFrame
  /\ UNCHANGED <<exitCode, child, wstatus, rvars, mlog>>

\* the parent: close (slave); return master
run_parent ==
  /\ pc = "parent"
  /\ fds' = [fds EXCEPT ![slave] = "closed"]
  /\ rlog' = Append(rlog, [op |-> "close", fd |-> slave])
  /\ pc' = "raw"
  /\ mlog' = Append(mlog, "fork")
  /\ RunFrame
  /\ UNCHANGED <<exitCode, child, wstatus, cfds, master, slave, cpc, csess>>

\* (variant: no_fork without the close of the slave)
run_no_fork_leak ==
  /\ pc = "no_fork"
  /\ pc' = "no_slave"
  /\ RunFrame
  /\ UNCHANGED <<exitCode, child, wstatus, rvars, mlog>>

\* no_fork: close (slave)
run_no_fork ==
  /\ pc = "no_fork"
  /\ fds' = [fds EXCEPT ![slave] = "closed"]
  /\ rlog' = Append(rlog, [op |-> "close", fd |-> slave])
  /\ pc' = "no_slave"
  /\ RunFrame
  /\ UNCHANGED <<exitCode, child, wstatus, cfds, master, slave, cpc, csess, mlog>>

\* no_slave: close (master); return -1
run_no_slave ==
  /\ pc = "no_slave"
  /\ fds' = [fds EXCEPT ![master] = "closed"]
  /\ rlog' = Append(rlog, [op |-> "close", fd |-> master])
  /\ pc' = "run_failed"
  /\ RunFrame
  /\ UNCHANGED <<exitCode, child, wstatus, cfds, master, slave, cpc, csess, mlog>>

\* main: run returned -1: perror; return 1
main_run_failed ==
  /\ pc = "run_failed"
  /\ exitCode' = 1
  /\ pc' = "exited"
  /\ mlog' = Append(mlog, "run_failed")
  /\ RunFrame
  /\ UNCHANGED <<child, wstatus, rvars>>

\* ------------------------------------------------ run, the child's branch
ChildFrame ==
  UNCHANGED <<fvars, tvars, mvars, cend, cleft, cwritten, pty, stdin, fds,
              master, slave, rlog, files, eintr, mlog>>

ChildStep(from, next) ==
  /\ child = "running"
  /\ cpc = from
  /\ cpc' = next

\* close (master)
child_close_master ==
  /\ ChildStep("close_master", "dup0")
  /\ cfds' = [cfds EXCEPT ![master] = "closed"]
  /\ ChildFrame
  /\ UNCHANGED <<child, wstatus, csess>>

\* dup2 (slave, k) for k = 0, 1, 2: k becomes a copy of slave (nothing
\* happens when slave = k)
DupStage(k) == CASE k = 0 -> "dup0" [] k = 1 -> "dup1" [] k = 2 -> "dup2"
DupNext(k) == CASE k = 0 -> "dup1" [] k = 1 -> "dup2" [] k = 2 -> "close_slave"

child_dup2(k) ==
  /\ ChildStep(DupStage(k), DupNext(k))
  /\ cfds' = [cfds EXCEPT ![k] = cfds[slave]]
  /\ ChildFrame
  /\ UNCHANGED <<child, wstatus, csess>>

\* (variant: the slave never closed)
close_slave_never(s) == FALSE

\* if (slave > 2)
close_slave_needed(s) == s > 2

\* if (slave > 2) close (slave)
child_close_slave ==
  /\ ChildStep("close_slave", "setsid")
  /\ cfds' = (IF close_slave_needed(slave)
                THEN [cfds EXCEPT ![slave] = "closed"] ELSE cfds)
  /\ ChildFrame
  /\ UNCHANGED <<child, wstatus, csess>>

\* setsid ()
child_setsid ==
  /\ ChildStep("setsid", "ctty")
  /\ csess' = [csess EXCEPT !.leader = TRUE]
  /\ ChildFrame
  /\ UNCHANGED <<child, wstatus, cfds>>

\* ioctl (0, TIOCSCTTY, 1): the terminal on descriptor 0 becomes the
\* controlling terminal of a session leader
child_ctty ==
  /\ ChildStep("ctty", "exec")
  /\ csess' = [csess EXCEPT !.ctty = (cfds[0] = "slave" /\ csess.leader)]
  /\ ChildFrame
  /\ UNCHANGED <<child, wstatus, cfds>>

\* execvp succeeds: the child runs the program
child_exec ==
  /\ ChildStep("exec", "program")
  /\ ChildFrame
  /\ UNCHANGED <<child, wstatus, cfds, csess>>

\* the value of exit after a failed execvp
EXEC_FAILED == 1

\* The text perror writes to descriptor 2 (one byte stands for it).
PerrorText == <<104>>

\* (variant: exit (0) after the failed execvp)
child_exec_fail_exit0 ==
  /\ ChildStep("exec", "exited")
  /\ child' = "dead"
  /\ wstatus' = StatusOfExit(0)
  /\ pty' = (IF cfds[2] = "slave" THEN pty \o PerrorText ELSE pty)
  /\ cwritten' = (IF cfds[2] = "slave" THEN cwritten \o PerrorText ELSE cwritten)
  /\ UNCHANGED <<fvars, tvars, mvars, cend, cleft, stdin, fds, master, slave,
                 rlog, files, eintr, mlog, cfds, csess>>

\* execvp fails: perror; exit (1)
child_exec_fail ==
  /\ ChildStep("exec", "exited")
  /\ child' = "dead"
  /\ wstatus' = StatusOfExit(EXEC_FAILED)
  /\ pty' = (IF cfds[2] = "slave" THEN pty \o PerrorText ELSE pty)
  /\ cwritten' = (IF cfds[2] = "slave" THEN cwritten \o PerrorText ELSE cwritten)
  /\ UNCHANGED <<fvars, tvars, mvars, cend, cleft, stdin, fds, master, slave,
                 rlog, files, eintr, mlog, cfds, csess>>

\* ---------------------------------------------------------------- SpecRun
\* main from its start to the creation of the tasks, with run and the
\* child's branch of it statement by statement. The process may be started
\* with any of the descriptors 0, 1, 2 closed.
InitRun ==
  /\ state = INIT /\ trace = <<>> /\ emitted = <<>> /\ chunks = <<>>
  /\ TasksIdle
  /\ pc = "start"
  /\ hasCmd \in BOOLEAN
  /\ tty \in BOOLEAN
  /\ termAttr \in (IF tty THEN TermAttrs ELSE {"none"})
  /\ attr0 = termAttr
  /\ to = "none"
  /\ rawEntries = 0 /\ restores = 0
  /\ status = 1
  /\ waited = "no"
  /\ exitCode = "none"
  /\ child = "none"
  /\ cend = [kind |-> "exit", val |-> 0]
  /\ cleft = <<>>
  /\ cwritten = <<>>
  /\ wstatus = 0
  /\ pty = <<>>
  /\ stdin = <<>>
  /\ fds \in {tab \in [Fds -> {"std", "closed"}] : \A d \in Fds : d > 2 => tab[d] = "closed"}
  /\ cfds = [d \in Fds |-> "closed"]
  /\ master = -1
  /\ slave = -1
  /\ rlog = <<>>
  /\ cpc = "none"
  /\ csess = [leader |-> FALSE, ctty |-> FALSE]
  /\ files = [t \in Tasks |-> <<>>]
  /\ eintr = [t \in Tasks |-> 0]
  /\ mlog = <<>>

NextRun ==
  \/ CheckArgs
  \/ run_openpt \/ run_openpt_fail
  \/ \E stage \in PtyStages : run_pty_stage(stage)
  \/ \E stage \in PtyStages : run_pty_stage_fail(stage)
  \/ run_open_slave \/ run_open_slave_fail
  \/ run_fork \/ run_fork_fail
  \/ run_parent \/ run_no_fork \/ run_no_slave \/ main_run_failed
  \/ child_close_master
  \/ \E k \in 0..2 : child_dup2(k)
  \/ child_close_slave \/ child_setsid \/ child_ctty
  \/ child_exec \/ child_exec_fail
  \/ EnterRaw \/ CreateRaw \/ CreateCsi

SpecRun == InitRun /\ [][NextRun]_vars

\* ------------------------------------------ claims on the start of a session
Opens(d) == Cardinality({k \in 1..Len(rlog) : rlog[k] = [op |-> "open", fd |-> d]})
Closes(d) == Cardinality({k \in 1..Len(rlog) : rlog[k] = [op |-> "close", fd |-> d]})

\* Every close in the log is the close of a descriptor that is open then.
ClosesOpenOnly ==
  \A k \in 1..Len(rlog) :
    rlog[k].op = "close" =>
      LET d == rlog[k].fd
          before == {j \in 1..(k - 1) : rlog[j].fd = d}
      IN /\ before # {}
         /\ rlog[CHOOSE j \in before : \A i \in before : i <= j].op = "open"

\* C11: when run has failed (at any of its six calls) every descriptor it
\* opened has been closed exactly once and there is no child; main then
\* exits 1 with raw mode never entered and no task started; and main exits 1
\* in the same way when no command is given.
C11_StartupFailure ==
  /\ pc \in {"run_failed", "exited"} =>
       /\ \A d \in Fds : Opens(d) = Closes(d) /\ Opens(d) <= 1
       /\ ClosesOpenOnly
       /\ \A d \in Fds : fds[d] \in {"std", "closed"}
       /\ child = "none" /\ cpc = "none"
       /\ rawEntries = 0 /\ termAttr = attr0
       /\ \A t \in Tasks : tpc[t] = "idle" /\ files[t] = <<>>
  /\ pc = "exited" => exitCode = 1
  /\ (pc = "exited" /\ ~hasCmd) => rlog = <<>>

\* fork failed with both descriptors open, and main has exited.
C11_Witness ==
  /\ pc = "exited"
  /\ hasCmd
  /\ Len(rlog) = 4
  /\ exitCode = 1

\* C14: the tasks that are started read different descriptors and write
\* different descriptors, the master is read by the filtered task only and
\* written by the raw task only, whatever descriptor number the master got.
C14_DisjointDescriptors ==
  LET started == {t \in Tasks : files[t] # <<>>}
  IN /\ \A t \in started : \A u \in started :
          t # u => (files[t][1] # files[u][1] /\ files[t][2] # files[u][2])
     /\ "raw" \in started =>
          (files["raw"][1] # master /\ files["raw"][2] = master)
     /\ "csi" \in started =>
          (files["csi"][1] = master /\ files["csi"][2] # master)

\* C18: once run has returned the master the process holds the master and no
\* slave; from the moment of execvp the child holds no master, has the slave
\* on 0, 1 and 2 and nowhere else (its descriptor slave is closed exactly
\* when it is above 2), is a session leader and has the pty as controlling
\* terminal, which it got after it became the leader.
C18_DescriptorsAfterFork ==
  /\ pc \in {"raw", "create1", "create2", "detach"} =>
       /\ fds[master] = "master"
       /\ \A d \in Fds : fds[d] # "slave"
       /\ child # "none"
  /\ cpc \in {"exec", "program", "exited"} =>
       /\ \A d \in Fds : cfds[d] # "master"
       /\ \A d \in Fds : cfds[d] = "slave" <=> d <= 2
       /\ csess.leader /\ csess.ctty
  /\ cpc \in {"setsid", "ctty", "exec", "program", "exited"} =>
       (cfds[slave] = "closed" <=> slave > 2)
  /\ csess.ctty => csess.leader
  /\ cpc \in {"close_master", "dup0", "dup1", "dup2", "close_slave", "setsid"} =>
       (~csess.leader /\ ~csess.ctty)
  /\ cpc = "ctty" => (csess.leader /\ ~csess.ctty)

\* The usual case: master 3, slave 4, the program runs and run has returned.
C18_Witness ==
  /\ cpc = "program"
  /\ master = 3 /\ slave = 4
  /\ pc = "create1"

\* ------------------------------------- claims on safe_write and the process
\* C7: when the child has written its output and exited with status 0, and
\* waitpid succeeded and the filtered task met no I/O error, the process
\* exits 0 only after all the child wrote has been filtered and written out.
C7_OutputRelayedBeforeExit ==
  (/\ pc = "exited"
   /\ waited = "ok"
   /\ cend = [kind |-> "exit", val |-> 0]
   /\ ~ioerr["csi"]) =>
     /\ exitCode = 0
     /\ sink["csi"] = csi_scan(INIT, cwritten).obuf

\* C8: every write(2) of safe_write asks for no more than what is left of the
\* chunk, the destination never accepts more than the chunk, and when
\* safe_write returns count it has accepted exactly the bytes of the chunk.
C8_SafeWriteExact ==
  \A t \in Tasks :
    /\ \A k \in 1..Len(wcalls[t]) :
         wcalls[t][k].req <= Len(wbuf[t]) - wcalls[t][k].p
    /\ Len(wsent[t]) <= Len(wbuf[t])
    /\ wsent[t] = SubSeq(wbuf[t], 1, Len(wsent[t]))
    /\ (wbuf[t] # <<>> /\ wret[t] = {Len(wbuf[t])}) => wsent[t] = wbuf[t]

\* C9: raw mode is entered at most once and only on a terminal; between the
\* entry and the restoration, to holds the attributes the terminal had at
\* start; and when the process has exited, every entry has been followed by
\* one restoration and the terminal has the attributes it had at start.
C9_RawModePaired ==
  /\ rawEntries <= 1
  /\ restores <= rawEntries
  /\ rawEntries = 1 => (tty /\ to = attr0)
  /\ (tty /\ pc \in {"create1", "create2", "detach", "sleep", "wait", "restore"})
       => (rawEntries = 1 /\ restores = 0)
  /\ pc = "exited" =>
       /\ restores = rawEntries
       /\ termAttr = attr0
       /\ rawEntries = (IF tty /\ child # "none" THEN 1 ELSE 0)

\* The terminal was switched to raw mode and restored after waitpid failed.
C9_Witness ==
  /\ pc = "exited"
  /\ tty
  /\ attr0 = "cooked"
  /\ rawEntries = 1 /\ restores = 1
  /\ waited = "failed"
  /\ termAttr = "cooked"

\* C10: once the session exists, the exit code is the child's exit value if
\* waitpid succeeded and the child exited, and 1 if the child was killed by a
\* signal or waitpid failed, whatever became of the relay tasks.
C10_ExitCode ==
  (pc = "exited" /\ child # "none") =>
    exitCode = (IF waited = "ok" /\ cend.kind = "exit" THEN cend.val ELSE 1)

\* The child exited 3 and so did the process, though a relay task failed.
C10_Witness ==
  /\ pc = "exited"
  /\ waited = "ok"
  /\ cend = [kind |-> "exit", val |-> 3]
  /\ exitCode = 3
  /\ \E t \in Tasks : ioerr[t]

\* What of task t a step of another task must leave alone.
TaskView(t) == <<tpc[t], wbuf[t], wp[t], wret[t], sink[t], ioerr[t]>>

\* A step that ends the loop of task t.
Stops(t) == tpc[t] # "done" /\ tpc'[t] = "done"

\* C12: a step that ends the loop of one task (end of its source, or a hard
\* error of its read or write) changes nothing of the other task; a task
\* that has stopped has met an error of its own or the end of its own
\* source; and main goes through waitpid whatever the tasks did and exits
\* with the code the child's termination status gives.
C12_ErrorsAreLocal ==
  /\ [][\A t \in Tasks :
         Stops(t) =>
           /\ ioerr'[t] \/ SourceEnded(t)
           /\ \A u \in Tasks \ {t} : TaskView(u)' = TaskView(u)
           /\ pc' = pc /\ status' = status /\ exitCode' = exitCode]_vars
  /\ [](\A t \in Tasks : tpc[t] = "done" => (ioerr[t] \/ SourceEnded(t)))
  /\ []((pc = "exited" /\ child # "none") =>
          /\ waited # "no"
          /\ exitCode = (IF waited = "ok" THEN exit_status(wstatus) ELSE 1))

\* The raw task stopped on an error with input left unread, the filtered
\* task relayed the child's output to its end, and the process exits 3 as
\* the child did.
C12_Witness ==
  /\ pc = "exited"
  /\ tpc["raw"] = "done" /\ ioerr["raw"] /\ stdin # <<>>
  /\ tpc["csi"] = "done" /\ ~ioerr["csi"]
  /\ cwritten # <<>>
  /\ sink["csi"] = csi_scan(INIT, cwritten).obuf
  /\ waited = "ok"
  /\ exitCode = 3

\* --------------------------------------------------------------- SpecExec
\* The whole process with run and the child's branch statement by statement,
\* from the start of main to its return, started with the standard
\* descriptors. The scheduler lets main and the child take their steps.
InitExec ==
  /\ state = INIT /\ trace = <<>> /\ emitted = <<>> /\ chunks = <<>>
  /\ TasksIdle
  /\ pc = "start"
  /\ hasCmd \in BOOLEAN
  /\ tty \in BOOLEAN
  /\ termAttr \in (IF tty THEN TermAttrs ELSE {"none"})
  /\ attr0 = termAttr
  /\ to = "none"
  /\ rawEntries = 0 /\ restores = 0
  /\ status = 1
  /\ waited = "no"
  /\ exitCode = "none"
  /\ child = "none"
  /\ cend \in [kind : {"exit"}, val : ExitValues]
  /\ cleft \in {<<>>, <<104>>}
  /\ cwritten = <<>>
  /\ wstatus = 0
  /\ pty = <<>>
  /\ stdin \in {<<>>, <<113>>}
  /\ RunIdle

MainNext ==
  \/ CheckArgs
  \/ run_openpt \/ run_openpt_fail
  \/ \E stage \in PtyStages : run_pty_stage(stage)
  \/ \E stage \in PtyStages : run_pty_stage_fail(stage)
  \/ run_open_slave \/ run_open_slave_fail
  \/ run_fork \/ run_fork_fail
  \/ run_parent \/ run_no_fork \/ run_no_slave \/ main_run_failed
  \/ EnterRaw \/ CreateRaw \/ CreateCsi \/ Detach \/ Sleep
  \/ WaitOk \/ WaitFail \/ Restore \/ Return

ChildNext ==
  \/ child_close_master
  \/ \E k \in 0..2 : child_dup2(k)
  \/ child_close_slave \/ child_setsid \/ child_ctty
  \/ child_exec \/ child_exec_fail
  \/ ChildWrite \/ ChildEnd

TaskNext ==
  \/ no_filter_read \/ csi_filter_read
  \/ \E t \in Tasks : read_end(t)
  \/ \E t \in Tasks : read_error(t)
  \/ \E t \in Tasks : safe_write_pass(t)
  \/ \E t \in Tasks : safe_write_error(t)

NextExec == MainNext \/ ChildNext \/ TaskNext

SpecExec ==
  /\ InitExec
  /\ [][NextExec]_vars
  /\ WF_vars(MainNext)
  /\ WF_vars(ChildNext)

\* C13: when execvp has failed the child has terminated with exit status 1;
\* from then on the process eventually returns from main, whatever the tasks
\* do and whether waitpid succeeds or fails; and it returns 1 with the
\* terminal back to the attributes it had at start.
C13_ExecFailure ==
  /\ [](cpc = "exited" =>
          /\ child \in {"dead", "reaped"}
          /\ WIFEXITED(wstatus) /\ WEXITSTATUS(wstatus) = 1)
  /\ (cpc = "exited" ~> pc = "exited")
  /\ []((cpc = "exited" /\ pc = "exited") =>
          /\ exitCode = 1
          /\ restores = rawEntries
          /\ rawEntries = (IF tty THEN 1 ELSE 0)
          /\ termAttr = attr0)

\* execvp failed, waitpid reaped the child, raw mode was entered and left,
\* and the process has returned 1.
C13_Witness ==
  /\ cpc = "exited"
  /\ pc = "exited"
  /\ waited = "ok"
  /\ tty /\ rawEntries = 1 /\ restores = 1
  /\ exitCode = 1

\* ------------------------------------------------- claims on main's order
\* The events of a run of main that establishes a session, in the order of
\* the code.
MainOrder ==
  <<"args", "fork">> \o (IF tty THEN <<"raw">> ELSE <<>>)
    \o <<"create_raw", "create_csi", "detach", "sleep", "wait">>
    \o (IF tty THEN <<"restore">> ELSE <<>>) \o <<"exit">>

Logged(e) == \E k \in 1..Len(mlog) : mlog[k] = e

\* C15: in a run that establishes a session the events of main so far are a
\* prefix of: fork, raw mode (on a terminal), both tasks created, the delay,
\* waitpid, the restoration (on a terminal), exit. No task runs before raw
\* mode is entered with the original attributes captured, and the terminal
\* is not restored before waitpid has returned.
C15_MainOrder ==
  /\ child # "none" =>
       /\ Len(mlog) <= Len(MainOrder)
       /\ mlog = SubSeq(MainOrder, 1, Len(mlog))
  /\ \A t \in Tasks :
       tpc[t] # "idle" =>
         /\ Logged("fork")
         /\ tty => (rawEntries = 1 /\ to = attr0)
  /\ (tty /\ Logged("fork") /\ rawEntries = 0) => termAttr = attr0
  /\ (rawEntries = 1 /\ restores = 0) => termAttr = cfmakeraw(attr0)
  /\ Logged("sleep") => \A t \in Tasks : tpc[t] # "idle"
  /\ waited # "no" => Logged("sleep")
  /\ restores > 0 => (waited # "no" /\ termAttr = attr0)
  /\ pc = "exited" /\ child # "none" => mlog = MainOrder

\* A whole run on a terminal: all ten events, in order.
C15_Witness ==
  /\ pc = "exited"
  /\ tty
  /\ child = "reaped"
  /\ mlog = MainOrder
  /\ Len(mlog) = 10

\* --------------------------------------------------------------- SpecTask
\* read(2) fails with EINTR: the while loop of safe_read calls it again.
read_eintr(t) ==
  /\ pc # "exited"
  /\ tpc[t] = "read"
  /\ eintr[t] < MaxEintr
  /\ eintr' = [eintr EXCEPT ![t] = @ + 1]
  /\ UNCHANGED <<fvars, tvars, mvars, cvars, pty, stdin, rvars, files, mlog>>

\* write(2) fails with EINTR: the while loop of safe_write calls it again.
write_eintr(t) ==
  /\ pc # "exited"
  /\ tpc[t] = "write"
  /\ Len(wbuf[t]) - wp[t] > 0
  /\ eintr[t] < MaxEintr
  /\ eintr' = [eintr EXCEPT ![t] = @ + 1]
  /\ UNCHANGED <<fvars, tvars, mvars, cvars, pty, stdin, rvars, files, mlog>>

\* Both tasks are at their first read, main is in waitpid, the child has
\* written its output and is dead, and the caller's input is ready.
InitTask ==
  /\ state = INIT /\ trace = <<>> /\ emitted = <<>> /\ chunks = <<>>
  /\ tpc = [t \in Tasks |-> "read"]
  /\ wbuf = [t \in Tasks |-> <<>>]
  /\ wp = [t \in Tasks |-> 0]
  /\ wcalls = [t \in Tasks |-> <<>>]
  /\ wsent = [t \in Tasks |-> <<>>]
  /\ wret = [t \in Tasks |-> {}]
  /\ sink = [t \in Tasks |-> <<>>]
  /\ ioerr = [t \in Tasks |-> FALSE]
  /\ pc = "wait"
  /\ hasCmd = TRUE
  /\ tty = FALSE
  /\ termAttr = "none" /\ attr0 = "none" /\ to = "none"
  /\ rawEntries = 0 /\ restores = 0
  /\ status = 1
  /\ waited = "no"
  /\ exitCode = "none"
  /\ child = "dead"
  /\ cend = [kind |-> "exit", val |-> 0]
  /\ cleft = <<>>
  /\ pty \in SeqsUpTo(ChildBytes, MaxChildOut)
  /\ cwritten = pty
  /\ wstatus = StatusOfExit(0)
  /\ stdin \in SeqsUpTo(StdinBytes, MaxStdin)
  /\ SessionUp

NextTask ==
  \/ TaskNext
  \/ \E t \in Tasks : read_eintr(t)
  \/ \E t \in Tasks : write_eintr(t)

SpecTask == InitTask /\ [][NextTask]_vars

\* What task t has still to read.
Source(t) == IF t = "raw" THEN stdin ELSE pty

\* C16: a task takes bytes from its source only between chunks, when the
\* chunk before has been written to its end and no write has failed; bytes
\* reach its destination only while it is writing a chunk; once its loop
\* has ended (end of input, or a hard error of read or write) nothing of
\* the task changes and it takes nothing more from its source; and an
\* interrupted call changes neither the position of the task nor its data.
C16_ReadWriteAlternate ==
  /\ [](\A t \in Tasks :
          tpc[t] = "read" => (wp[t] >= Len(wbuf[t]) /\ ~ioerr[t]))
  /\ [][\A t \in Tasks :
         /\ Source(t)' # Source(t) =>
              (tpc[t] = "read" /\ wp[t] >= Len(wbuf[t]) /\ ~ioerr[t])
         /\ sink'[t] # sink[t] => (tpc[t] = "write" /\ wp[t] < Len(wbuf[t]))
         /\ tpc[t] = "done" =>
              (TaskView(t)' = TaskView(t) /\ Source(t)' = Source(t)
               /\ eintr'[t] = eintr[t])
         /\ Stops(t) =>
              (ioerr'[t] \/ (tpc[t] = "read" /\ Source(t) = <<>>))
         /\ eintr'[t] # eintr[t] =>
              (TaskView(t)' = TaskView(t) /\ Source(t)' = Source(t)
               /\ tpc[t] \in {"read", "write"})]_vars

\* The filtered task was interrupted MaxEintr times and still relayed two
\* chunks to their end before its source ended.
C16_Witness ==
  /\ eintr["csi"] = MaxEintr
  /\ Len(chunks) = 2
  /\ tpc["csi"] = "done" /\ ~ioerr["csi"]
  /\ sink["csi"] # <<>>
  /\ pty = <<>>

\* --------------------------------------------------------------- SpecWide
\* The bytes that lead into a CSI sequence, and every value of a byte.
LeadBytes == {27, 91, 48}
AllBytes == 0..255

\* No byte outside LeadBytes has been read yet.
OnlyLead == \A k \in 1..Len(trace) : trace[k].byte \in LeadBytes

\* One read and the scan of its chunk; the chunk is made of bytes of
\* LeadBytes, or is one byte of any value as long as none was read before.
ScanWide ==
  \E ibuf \in SeqsUpTo(LeadBytes, Min(BUFSIZE - 1, MaxWide - Len(trace)))
               \cup {<<b>> : b \in (IF OnlyLead /\ Len(trace) < MaxWide
                                      THEN AllBytes ELSE {})} :
    /\ ibuf # <<>>
    /\ LET r == csi_scan(state, ibuf)
       IN /\ state' = r.state
          /\ trace' = trace \o r.log
          /\ emitted' = emitted \o r.obuf
          /\ chunks' = Append(chunks, [entry |-> state, n |-> Len(ibuf),
                                       obuf |-> r.obuf])
    /\ UNCHANGED <<tvars, mvars, cvars, pty, stdin, rvars, files, eintr, mlog>>

NextWide == ScanWide

SpecWide == InitFilter /\ [][NextWide]_vars

\* C17: a byte read in state CSI puts nothing into obuf; it returns the
\* state to INIT when it is in 0x40-0x7E and leaves it CSI for every other
\* value 0x00-0xFF; and what has been emitted is what the bytes read in the
\* other states gave.
C17_CsiConsumes ==
  /\ \A i \in 1..Len(trace) :
       trace[i].pre = CSI =>
         /\ trace[i].out = <<>>
         /\ StateAfter(i) = (IF trace[i].byte >= 64 /\ trace[i].byte <= 126
                               THEN INIT ELSE CSI)
  /\ emitted = Concat([i \in 1..Len(trace) |->
                         IF trace[i].pre = CSI THEN <<>> ELSE trace[i].out])

\* ESC '[' then the byte 0xFF, which is dropped and leaves the state CSI.
C17_Witness ==
  /\ Len(trace) = 3
  /\ trace[3].pre = CSI
  /\ trace[3].byte = 255
  /\ state = CSI
  /\ emitted = <<>>

\* ------------------------------------------------ claims on what is emitted
\* s can be got from t by deleting elements of t.
RECURSIVE IsSubseq(_, _)
IsSubseq(s, t) ==
  IF s = <<>> THEN TRUE
  ELSE IF t = <<>> THEN FALSE
  ELSE IF Head(s) = Head(t) THEN IsSubseq(Tail(s), Tail(t))
  ELSE IsSubseq(s, Tail(t))

\* The bytes emitted up to and including the byte at position i.
EmittedUpTo(i) == Concat([k \in 1..i |-> trace[k].out])

\* C20: the filter only deletes: after any chunks the output is a
\* subsequence of the input (so it holds no byte, and no ESC, the input
\* does not hold, and none more often or in another order); and after each
\* byte of the chunk just read, what has been emitted is no longer than, and
\* a subsequence of, what had been read by then.
C20_OnlyDeletes ==
  /\ IsSubseq(emitted, input)
  /\ Len(emitted) <= Len(input)
  /\ chunks # <<>> =>
       \A i \in ChunkStart(Len(chunks))..Len(trace) :
         /\ Len(EmittedUpTo(i)) <= i
         /\ IsSubseq(EmittedUpTo(i), Sub(input, 1, i))

\* A delayed ESC emitted in a later chunk than it was read in, after a
\* dropped CSI sequence.
C20_Witness ==
  /\ input = <<ESC, LBRACKET, 109, ESC, 32>>
  /\ emitted = <<ESC, 32>>
  /\ Len(chunks) = 2
  /\ chunks[1].n = 4

\* --------------------------------------------------------------- SpecFull
\* Chunks that fill ibuf, or all of it but one byte.
FullBytes == {27, 91, 109}
FullLens == {BUFSIZE - 2, BUFSIZE - 1}

\* n bytes that repeat the pattern pat.
Periodic(pat, n) == [k \in 1..n |-> pat[((k - 1) % Len(pat)) + 1]]

\* The first read gives a short chunk, which sets the state the next chunk
\* is entered in.
ScanShort ==
  /\ chunks = <<>>
  /\ \E ibuf \in SeqsUpTo(FullBytes, Min(BUFSIZE - 1, MaxShort)) :
       /\ ibuf # <<>>
       /\ LET r == csi_scan(state, ibuf)
          IN /\ state' = r.state
             /\ trace' = trace \o r.log
             /\ emitted' = emitted \o r.obuf
             /\ chunks' = Append(chunks, [entry |-> state, n |-> Len(ibuf),
                                          obuf |-> r.obuf])
  /\ UNCHANGED <<tvars, mvars, cvars, pty, stdin, rvars, files, eintr, mlog>>

\* A read fills ibuf (or all but one byte of it) and the chunk is scanned.
ScanFull ==
  /\ Len(trace) <= MaxShort
  /\ \E pat \in SeqsUpTo(FullBytes, MaxPeriod) : \E n \in FullLens :
       /\ pat # <<>>
       /\ n <= BUFSIZE - 1
       /\ LET ibuf == Periodic(pat, n)
              r == csi_scan(state, ibuf)
          IN /\ state' = r.state
             /\ trace' = trace \o r.log
             /\ emitted' = emitted \o r.obuf
             /\ chunks' = Append(chunks, [entry |-> state, n |-> n,
                                          obuf |-> r.obuf])
  /\ UNCHANGED <<tvars, mvars, cvars, pty, stdin, rvars, files, eintr, mlog>>

NextFull == ScanShort \/ ScanFull

SpecFull == InitFilter /\ [][NextFull]_vars

\* C19: a chunk of n bytes, 1 <= n <= BUFSIZE - 1, puts at most n + 1 <=
\* BUFSIZE bytes into obuf, and n + 1 only when it is entered in state
\* ESCAPE and its first byte is not '['.
C19_ObufFits ==
  \A c \in 1..Len(chunks) :
    /\ chunks[c].n >= 1 /\ chunks[c].n <= BUFSIZE - 1
    /\ Len(chunks[c].obuf) <= chunks[c].n + 1
    /\ chunks[c].n + 1 <= BUFSIZE
    /\ Len(chunks[c].obuf) <= BUFSIZE
    /\ Len(chunks[c].obuf) > chunks[c].n =>
         /\ chunks[c].entry = ESCAPE
         /\ trace[ChunkStart(c)].byte # LBRACKET

\* A chunk that fills ibuf, entered with an ESC pending, fills obuf to its
\* last byte.
C19_Witness ==
  /\ Len(chunks) = 2
  /\ chunks[2].entry = ESCAPE
  /\ chunks[2].n = BUFSIZE - 1
  /\ Len(chunks[2].obuf) = BUFSIZE

====
